---- MODULE Spec2Model ----
(***************************************************************************)
(* Model of the PrimeTrade API (backend/routes/tasks.js and users.js) and   *)
(* of its browser client (frontend/lib/api-client.ts, the auth context and  *)
(* the tasks page): the Task and User collections, the route handlers that  *)
(* read and write them, the requests in flight, and the state the browser   *)
(* keeps.  Spec runs one task request at a time, each handler as one        *)
(* action.  SpecConc runs requests concurrently: a handler that awaits the  *)
(* store twice (lookup, then write) is two steps there, so that other       *)
(* requests can run in between; SpecRace does so for updates of one task    *)
(* and SpecUsers for profile updates.  SpecAuth puts the auth middleware in *)
(* front of every task and user route.  SpecList, SpecFilter and SpecStats  *)
(* apply the list query, its filters and the stats overview to every store  *)
(* of bounded size.  SpecClient is the API client with the auth provider    *)
(* and the route guards, its requests answered in any order with any        *)
(* outcome.  SpecPage is the tasks page in front of the task routes.        *)
(***************************************************************************)
EXTENDS Integers, Sequences, FiniteSets, TLC

\* ------------------------------------------------------------------ bounds
MaxId == 2          \* number of ObjectIds the store hands out
MaxReq == 2         \* number of requests in flight at once
MaxList == 3        \* size of the largest store the list query is applied to
MaxPage == 3        \* largest page number a list request asks for
MaxLimit == 2       \* largest page size a list request asks for
MaxMatch == 1       \* size of the largest store the filters are applied to
MaxStat == 2        \* size of the largest store the statistics are taken of
MaxCalls == 2       \* number of calls the browser has in flight at once

Users == {"A", "B"}
IDs == 1 .. MaxId
Slots == 1 .. MaxReq

\* ------------------------------------------------------------------ schema
ValidStatus == {"pending", "in-progress", "completed", "cancelled"}
ValidPriority == {"low", "medium", "high", "urgent"}
SchemaPaths ==
    {"title", "description", "status", "priority", "category", "dueDate", "tags",
     "isArchived", "user"}

EmptyObj == [k \in {} |-> 0]

Has(b, k) == k \in DOMAIN b

\* delete obj[k]
Without(b, k) == [x \in DOMAIN b \ {k} |-> b[x]]

\* the paths of the schema an object names (Mongoose strict mode drops the rest)
Known(b) == [k \in DOMAIN b \cap SchemaPaths |-> b[k]]

VARIABLES
    tasks,      \* the Task collection: _id -> document
    nextId,     \* the next ObjectId the store generates
    createdBy,  \* history: _id of a stored task -> the caller who created it
    req,        \* the handlers in flight: slot -> position and locals
    last,       \* the last response sent
    users,      \* the User collection: id -> document
    client      \* the browser: the API client, the auth context and the tasks page

vars == <<tasks, nextId, createdBy, req, last, users, client>>

\* ------------------------------------------------------------------ responses
Idle == [pc |-> "idle", caller |-> "", id |-> 0, body |-> EmptyObj, doc |-> <<>>]

\* res.status(status).json({ message, data, ... }) with the request it answers:
\* op, caller, id (single-record routes), ids (bulk), query (list)
Response(op, caller, id, status, message, data, info) ==
    [op |-> op, caller |-> caller, id |-> id, ids |-> {}, query |-> EmptyObj,
     status |-> status, message |-> message, data |-> data, info |-> info]

NotFound(op, caller, id) ==
    Response(op, caller, id, 404, "Task not found", <<>>, <<>>)

\* errorHandler: next(error) for a Mongoose ValidationError, and
\* handleValidationErrors for a request the validators reject
ValidationError(op, caller, id) ==
    Response(op, caller, id, 400, "Validation Error", <<>>, <<>>)

\* errorHandler: next(error) for anything else
ServerError(op, caller, id) ==
    Response(op, caller, id, 500, "Server Error", <<>>, <<>>)

\* ------------------------------------------------------------------ store
\* a lookup by _id alone
FindById(id, caller) ==
    IF id \in DOMAIN tasks THEN <<tasks[id]>> ELSE <<>>

\* Task.findOne({ _id: id, user: caller })
FindOne(id, caller) ==
    IF id \in DOMAIN tasks /\ tasks[id].user = caller THEN <<tasks[id]>> ELSE <<>>

\* enum validators of the Task schema on the paths an object sets
EnumsOK(s) ==
    /\ (Has(s, "status") => s["status"] \in ValidStatus)
    /\ (Has(s, "priority") => s["priority"] \in ValidPriority)

\* Mongoose's cast of an update object: top-level paths are $set, a $set
\* operator is kept; paths outside the schema are dropped
CastUpdate(b) ==
    LET op == IF Has(b, "$set") THEN Known(b["$set"]) ELSE EmptyObj
    IN  Known(b) @@ op

\* a replacement of the document: the paths s does not name fall back to
\* their defaults
ReplaceDocument(doc, s) ==
    [f \in DOMAIN doc |->
        IF f \in DOMAIN s THEN s[f]
        ELSE IF f = "status" THEN "pending"
        ELSE IF f = "priority" THEN "medium"
        ELSE IF f = "isArchived" THEN FALSE
        ELSE doc[f]]

\* the document after { $set: s }
ApplyUpdate(doc, s) ==
    [f \in DOMAIN doc |-> IF f \in DOMAIN s THEN s[f] ELSE doc[f]]

\* ------------------------------------------------------------------ middleware
\* validateTask + handleValidationErrors
validateTask(b) ==
    /\ Has(b, "title")
    /\ b["title"] # <<>>
    /\ EnumsOK(b)

\* validateTaskUpdate + handleValidationErrors
validateTaskUpdate(b) ==
    /\ (Has(b, "title") => b["title"] # <<>>)
    /\ EnumsOK(b)

\* ------------------------------------------------------------------ handlers
\* errorHandler: next(error) for a duplicate key (E11000)
DuplicateKey(op, caller, id) ==
    Response(op, caller, id, 400, "Duplicate field value entered", <<>>, <<>>)

\* a path of the Task schema: the value the body gives it, else its default
Default(b, k, d) == IF Has(b, k) THEN b[k] ELSE d

\* the owner taken from the body when the body names one
NewTaskBodyUser(b, caller, id) ==
    [_id |-> id,
     user |-> IF Has(b, "user") THEN b["user"] ELSE caller,
     title |-> b["title"],
     description |-> Default(b, "description", <<>>),
     status |-> Default(b, "status", "pending"),
     priority |-> Default(b, "priority", "medium"),
     category |-> Default(b, "category", <<>>),
     dueDate |-> Default(b, "dueDate", <<>>),
     tags |-> Default(b, "tags", {}),
     isArchived |-> Default(b, "isArchived", FALSE),
     createdAt |-> id]

\* Task.create(req.body) after req.body.user = req.user.id; texts are sequences
\* of characters, an optional date is <<>> or <<d>>, createdAt is the order of
\* the generated ids
NewTask(b, caller, id) ==
    [_id |-> id,
     user |-> caller,
     title |-> b["title"],
     description |-> Default(b, "description", <<>>),
     status |-> Default(b, "status", "pending"),
     priority |-> Default(b, "priority", "medium"),
     category |-> Default(b, "category", <<>>),
     dueDate |-> Default(b, "dueDate", <<>>),
     tags |-> Default(b, "tags", {}),
     isArchived |-> Default(b, "isArchived", FALSE),
     createdAt |-> id]

\* the _id of the document Task.create(req.body) inserts: the one the body
\* names, else a generated one
NewId(b) == IF Has(b, "_id") THEN b["_id"] ELSE nextId

\* POST /api/tasks; an _id the body names is one the store generated earlier
\* (a generated ObjectId never equals one supplied before it)
CreateTask(r, caller, b) ==
    /\ req[r].pc = "idle"
    /\ IF ~validateTask(b)
       THEN /\ last' = ValidationError("create", caller, 0)
            /\ UNCHANGED <<tasks, nextId, createdBy>>
       ELSE IF NewId(b) \in DOMAIN tasks
       THEN /\ last' = DuplicateKey("create", caller, 0)
            /\ UNCHANGED <<tasks, nextId, createdBy>>
       ELSE /\ NewId(b) <= MaxId
            /\ Has(b, "_id") => b["_id"] < nextId
            /\ tasks' = (NewId(b) :> NewTask(b, caller, NewId(b))) @@ tasks
            /\ createdBy' = (NewId(b) :> caller) @@ createdBy
            /\ nextId' = IF Has(b, "_id") THEN nextId ELSE nextId + 1
            /\ last' = Response("create", caller, NewId(b), 201,
                                "Task created successfully",
                                <<NewTask(b, caller, NewId(b))>>, <<>>)
    /\ UNCHANGED <<req, users>>

\* GET /api/tasks/:id
GetTask(r, caller, id) ==
    /\ req[r].pc = "idle"
    /\ last' = IF FindOne(id, caller) = <<>>
               THEN NotFound("get", caller, id)
               ELSE Response("get", caller, id, 200, "", FindOne(id, caller), <<>>)
    /\ UNCHANGED <<tasks, nextId, createdBy, req, users>>

\* the handler is suspended at its second await
Await(r, pc, caller, id, b, doc) ==
    /\ req' = [req EXCEPT ![r] = [pc |-> pc, caller |-> caller, id |-> id,
                                  body |-> b, doc |-> doc]]
    /\ UNCHANGED <<tasks, last>>

\* PUT /api/tasks/:id: Task.findByIdAndUpdate(id, body, {new, runValidators})
\* and the response
UpdateApply(c, id, b) ==
    LET s == CastUpdate(b)
    IN  IF ~EnumsOK(s)
        THEN /\ last' = ValidationError("update", c, id)
             /\ UNCHANGED tasks
        ELSE IF id \in DOMAIN tasks
        THEN /\ tasks' = [tasks EXCEPT ![id] = ApplyUpdate(tasks[id], s)]
             /\ last' = Response("update", c, id, 200, "Task updated successfully",
                                 <<ApplyUpdate(tasks[id], s)>>, <<>>)
        ELSE /\ last' = Response("update", c, id, 200, "Task updated successfully",
                                 <<>>, <<>>)
             /\ UNCHANGED tasks

\* PUT /api/tasks/:id up to the ownership lookup; found is what follows it
UpdateLookup(caller, id, b, found) ==
    IF ~validateTaskUpdate(b)
    THEN /\ last' = ValidationError("update", caller, id)
         /\ UNCHANGED <<tasks, req>>
    ELSE IF FindOne(id, caller) = <<>>
    THEN /\ last' = NotFound("update", caller, id)
         /\ UNCHANGED <<tasks, req>>
    ELSE found

\* PUT /api/tasks/:id, the whole handler (delete req.body.user, then the write)
UpdateTask(r, caller, id, b) ==
    /\ req[r].pc = "idle"
    /\ UpdateLookup(caller, id, b,
                    UpdateApply(caller, id, Without(b, "user")) /\ UNCHANGED req)
    /\ UNCHANGED <<nextId, createdBy, users>>

\* PUT /api/tasks/:id, first await (delete req.body.user follows the lookup;
\* the handler holds the document it read in task)
UpdateFind(r, caller, id, b) ==
    /\ req[r].pc = "idle"
    /\ UpdateLookup(caller, id, b,
                    Await(r, "update", caller, id, Without(b, "user"),
                          FindOne(id, caller)))
    /\ UNCHANGED <<nextId, createdBy, users>>

\* PUT /api/tasks/:id, second await
UpdateWrite(r) ==
    /\ req[r].pc = "update"
    /\ req' = [req EXCEPT ![r] = Idle]
    /\ UpdateApply(req[r].caller, req[r].id, req[r].body)
    /\ UNCHANGED <<nextId, createdBy, users>>

\* DELETE /api/tasks/:id: Task.findByIdAndDelete(id) and the response
DeleteApply(c, id) ==
    /\ tasks' = [i \in DOMAIN tasks \ {id} |-> tasks[i]]
    /\ createdBy' = [i \in DOMAIN tasks \ {id} |-> createdBy[i]]
    /\ last' = Response("delete", c, id, 200, "Task deleted successfully", <<>>, <<>>)

\* DELETE /api/tasks/:id up to the ownership lookup
DeleteLookup(caller, id, found) ==
    IF FindOne(id, caller) = <<>>
    THEN /\ last' = NotFound("delete", caller, id)
         /\ UNCHANGED <<tasks, createdBy, req>>
    ELSE found

\* DELETE /api/tasks/:id, the whole handler
DeleteTask(r, caller, id) ==
    /\ req[r].pc = "idle"
    /\ DeleteLookup(caller, id, DeleteApply(caller, id) /\ UNCHANGED req)
    /\ UNCHANGED <<nextId, users>>

\* DELETE /api/tasks/:id, first await
DeleteFind(r, caller, id) ==
    /\ req[r].pc = "idle"
    /\ DeleteLookup(caller, id,
                    Await(r, "delete", caller, id, EmptyObj, <<>>) /\ UNCHANGED createdBy)
    /\ UNCHANGED <<nextId, users>>

\* DELETE /api/tasks/:id, second await
DeleteWrite(r) ==
    /\ req[r].pc = "delete"
    /\ req' = [req EXCEPT ![r] = Idle]
    /\ DeleteApply(req[r].caller, req[r].id)
    /\ UNCHANGED <<nextId, users>>

\* a set-to-true in place of the negation
SetArchived(doc) == [doc EXCEPT !.isArchived = TRUE]

\* task.isArchived = !task.isArchived
Toggle(doc) == [doc EXCEPT !.isArchived = ~doc.isArchived]

\* PATCH /api/tasks/:id/archive: the toggle of the document read, task.save()
\* (writes the modified path by _id; fails when the document is gone) and the
\* response, which carries the document held in memory
ArchiveApply(c, id, doc) ==
    LET task == Toggle(doc)
    IN  IF id \in DOMAIN tasks
        THEN /\ tasks' = [tasks EXCEPT ![id].isArchived = task.isArchived]
             /\ last' = Response("archive", c, id, 200,
                                 IF task.isArchived THEN "Task archived successfully"
                                 ELSE "Task unarchived successfully",
                                 <<task>>, <<>>)
        ELSE /\ last' = ServerError("archive", c, id)
             /\ UNCHANGED tasks

\* PATCH /api/tasks/:id/archive up to the ownership lookup
ArchiveLookup(caller, id, found) ==
    IF FindOne(id, caller) = <<>>
    THEN /\ last' = NotFound("archive", caller, id)
         /\ UNCHANGED <<tasks, req>>
    ELSE found

\* PATCH /api/tasks/:id/archive, the whole handler
ArchiveTask(r, caller, id) ==
    /\ req[r].pc = "idle"
    /\ ArchiveLookup(caller, id,
                     ArchiveApply(caller, id, FindOne(id, caller)[1]) /\ UNCHANGED req)
    /\ UNCHANGED <<nextId, createdBy, users>>

\* PATCH /api/tasks/:id/archive, first await
ArchiveFind(r, caller, id) ==
    /\ req[r].pc = "idle"
    /\ ArchiveLookup(caller, id,
                     Await(r, "archive", caller, id, EmptyObj, FindOne(id, caller)))
    /\ UNCHANGED <<nextId, createdBy, users>>

\* PATCH /api/tasks/:id/archive, second await
ArchiveSave(r) ==
    /\ req[r].pc = "archive"
    /\ req' = [req EXCEPT ![r] = Idle]
    /\ ArchiveApply(req[r].caller, req[r].id, req[r].doc[1])
    /\ UNCHANGED <<nextId, createdBy, users>>

\* the check without its length test
NotAnArray(taskIds) == taskIds.kind # "array"

\* !taskIds || !Array.isArray(taskIds) || taskIds.length === 0
\* (taskIds is [kind, ids]: the kind of value sent and, for an array, its ids)
NoTaskIds(taskIds) == taskIds.kind # "array" \/ taskIds.ids = {}

\* !updates || Object.keys(updates).length === 0
\* (updates is <<>> when the key is missing and <<object>> otherwise)
NoUpdates(updates) == updates = <<>> \/ DOMAIN updates[1] = {}

\* the filter { _id: {$in: taskIds} } without the owner
BulkMatchedById(caller, ids) ==
    {i \in DOMAIN tasks : i \in ids}

\* the documents the filter { _id: {$in: taskIds}, user: req.user.id } selects
BulkMatched(caller, ids) ==
    {i \in DOMAIN tasks : i \in ids /\ tasks[i].user = caller}

\* the matched count reported as the modified count
ModifiedAll(m, s) == m

\* modifiedCount: the matched documents the update changes
Modified(m, s) == {i \in m : ApplyUpdate(tasks[i], s) # tasks[i]}

\* the failure of the store answered as a success
BulkResultSwallowed(caller, m, changed, ok) ==
    Response("bulk", caller, 0, 200, "tasks updated successfully",
             <<>>, <<Cardinality(m), Cardinality(changed)>>)

\* the response to the outcome of Task.updateMany: its counts, or next(error)
\* when the store failed during the batch
BulkResult(caller, m, changed, ok) ==
    IF ok
    THEN Response("bulk", caller, 0, 200, "tasks updated successfully",
                  <<>>, <<Cardinality(m), Cardinality(changed)>>)
    ELSE ServerError("bulk", caller, 0)

\* PATCH /api/tasks/bulk; updateMany is not atomic across documents: the store
\* may fail after it wrote the documents w, any part of the matched ones
BulkUpdate(r, caller, taskIds, updates) ==
    /\ req[r].pc = "idle"
    /\ IF NoTaskIds(taskIds)
       THEN /\ last' = Response("bulk", caller, 0, 400, "Task IDs are required", <<>>, <<>>)
            /\ UNCHANGED tasks
       ELSE IF NoUpdates(updates)
       THEN /\ last' = Response("bulk", caller, 0, 400, "Updates are required", <<>>, <<>>)
            /\ UNCHANGED tasks
       ELSE LET s == CastUpdate(Without(updates[1], "user"))
                m == BulkMatched(caller, taskIds.ids)
            IN  \E w \in SUBSET m, ok \in BOOLEAN :
                   /\ ok => w = m
                   /\ tasks' = [i \in DOMAIN tasks |->
                                  IF i \in w THEN ApplyUpdate(tasks[i], s) ELSE tasks[i]]
                   /\ last' = [BulkResult(caller, m, Modified(m, s), ok)
                               EXCEPT !.ids = taskIds.ids]
    /\ UNCHANGED <<nextId, createdBy, req, users>>

\* ------------------------------------------------------------------ requests
CreateBodies ==
    { [title |-> <<"t">>],
      [title |-> <<"t">>, user |-> "B"],
      [title |-> <<"t">>, status |-> "bogus"],
      [title |-> <<"t">>, priority |-> "bogus"],
      [status |-> "completed"],
      [title |-> <<"t">>, _id |-> 1] }

UpdateBodies ==
    { [isArchived |-> TRUE],
      [status |-> "bogus"],
      [user |-> "B"],
      ("$set" :> [user |-> "B"]),
      ("$set" :> [status |-> "bogus"]) }

Array(S) == [kind |-> "array", ids |-> S]

\* the bodies of the bulk requests: [taskIds, updates]
BulkBodies ==
    [taskIds : {Array({1}), Array(IDs)},
     updates : {<<[user |-> "B", isArchived |-> TRUE]>>}]
        \cup [taskIds : {Array({1})},
              updates : {<<[status |-> "bogus"]>>, <<("$set" :> [user |-> "B"])>>}]
        \cup [taskIds : {[kind |-> "missing", ids |-> {}],
                         [kind |-> "string", ids |-> {}], Array({})},
              updates : {<<[isArchived |-> TRUE]>>}]
        \cup [taskIds : {Array(IDs)}, updates : {<<>>, <<EmptyObj>>}]

\* no browser takes part
NoClient == [token |-> "", stored |-> "", user |-> "", loading |-> FALSE]

\* the registered accounts
InitUsers ==
    [u \in Users |-> [_id |-> u, name |-> <<u>>, email |-> <<u, "@">>,
                      password |-> <<"p">>, avatar |-> <<>>, role |-> "user",
                      isActive |-> TRUE]]

Init ==
    /\ tasks = EmptyObj
    /\ nextId = 1
    /\ createdBy = EmptyObj
    /\ req = [r \in Slots |-> Idle]
    /\ last = Response("none", "", 0, 0, "", <<>>, <<>>)
    /\ users = InitUsers
    /\ client = NoClient

\* one request at a time
Next ==
    \/ \E c \in Users, b \in CreateBodies : CreateTask(1, c, b) /\ UNCHANGED client
    \/ \E c \in Users, i \in IDs : GetTask(1, c, i) /\ UNCHANGED client
    \/ \E c \in Users, i \in IDs, b \in UpdateBodies : UpdateTask(1, c, i, b) /\ UNCHANGED client
    \/ \E c \in Users, i \in IDs : DeleteTask(1, c, i) /\ UNCHANGED client
    \/ \E c \in Users, i \in IDs : ArchiveTask(1, c, i) /\ UNCHANGED client
    \/ \E c \in Users, b \in BulkBodies : BulkUpdate(1, c, b.taskIds, b.updates) /\ UNCHANGED client

Spec == Init /\ [][Next]_vars

\* the requests the concurrent specification issues
ConcUpdateBodies == { [status |-> "completed"], ("$set" :> [user |-> "B"]) }

\* requests interleaved at their awaits
NextConc ==
    \E r \in Slots :
        \/ \E c \in Users : CreateTask(r, c, [title |-> <<"t">>]) /\ UNCHANGED client
        \/ \E c \in Users, i \in IDs, b \in ConcUpdateBodies : UpdateFind(r, c, i, b) /\ UNCHANGED client
        \/ UpdateWrite(r) /\ UNCHANGED client
        \/ \E c \in Users, i \in IDs : DeleteFind(r, c, i) /\ UNCHANGED client
        \/ DeleteWrite(r) /\ UNCHANGED client
        \/ \E c \in Users, i \in IDs : ArchiveFind(r, c, i) /\ UNCHANGED client
        \/ ArchiveSave(r) /\ UNCHANGED client
        \/ \E c \in Users : BulkUpdate(r, c, Array(IDs), <<[status |-> "completed"]>>) /\ UNCHANGED client

SpecConc == Init /\ [][NextConc]_vars

\* the updates of the racing requests: both write status, with different
\* values; priority and isArchived are written by one of them each
RaceBodies ==
    { [status |-> "completed", priority |-> "high"],
      [status |-> "in-progress", isArchived |-> TRUE] }

\* a store holding one task, of any owner
InitRace ==
    /\ \E o \in Users :
          /\ tasks = (1 :> NewTask([title |-> <<"t">>], o, 1))
          /\ createdBy = (1 :> o)
    /\ nextId = 2
    /\ req = [r \in Slots |-> Idle]
    /\ last = Response("none", "", 0, 0, "", <<>>, <<>>)
    /\ users = InitUsers
    /\ client = NoClient

\* update requests interleaved at their awaits
NextRace ==
    \E r \in Slots :
        \/ \E c \in Users, i \in IDs, b \in RaceBodies : UpdateFind(r, c, i, b) /\ UNCHANGED client
        \/ UpdateWrite(r) /\ UNCHANGED client

SpecRace == InitRace /\ [][NextRace]_vars

\* ------------------------------------------------------------------ list
\* includeArchived=true read as "archived only"
ArchivedOnly(q) ==
    IF Has(q, "includeArchived") /\ q["includeArchived"] = "true"
    THEN {TRUE} ELSE {FALSE}

\* isArchived: includeArchived === 'true' ? { $in: [true, false] } : false
ArchivedFilter(q) ==
    IF Has(q, "includeArchived") /\ q["includeArchived"] = "true"
    THEN {TRUE, FALSE} ELSE {FALSE}

\* the i flag: upper and lower case of a letter are the same character
Fold(c) == IF c = "A" THEN "a" ELSE IF c = "W" THEN "w" ELSE c

\* new RegExp(pattern, 'i').test(text) for patterns of letters and '.'
RegExpTest(pattern, text) ==
    \E k \in 0 .. Len(text) - Len(pattern) :
        \A j \in 1 .. Len(pattern) :
            pattern[j] = "." \/ Fold(pattern[j]) = Fold(text[k + j])

\* if (search): an empty string is not a filter
Given(q, k) == Has(q, k) /\ q[k] # <<>>

\* the $or of the search clause
SearchMatches(t, search) ==
    \/ RegExpTest(search, t.title)
    \/ RegExpTest(search, t.description)
    \/ \E g \in t.tags : RegExpTest(search, g)

\* the query object without its user condition
MatchesAnyUser(t, caller, q) ==
    /\ t.isArchived \in ArchivedFilter(q)
    /\ (Has(q, "status") => t.status = q["status"])
    /\ (Has(q, "priority") => t.priority = q["priority"])
    /\ (Given(q, "category") => RegExpTest(q["category"], t.category))
    /\ (Given(q, "search") => SearchMatches(t, q["search"]))

\* the search clause as one more alternative instead of one more condition
MatchesOrSearch(t, caller, q) ==
    /\ t.user = caller
    /\ t.isArchived \in ArchivedFilter(q)
    /\ \/ /\ (Has(q, "status") => t.status = q["status"])
          /\ (Has(q, "priority") => t.priority = q["priority"])
          /\ (Given(q, "category") => RegExpTest(q["category"], t.category))
       \/ (Given(q, "search") /\ SearchMatches(t, q["search"]))

\* the query object of GET /api/tasks applied to one document
Matches(t, caller, q) ==
    /\ t.user = caller
    /\ t.isArchived \in ArchivedFilter(q)
    /\ (Has(q, "status") => t.status = q["status"])
    /\ (Has(q, "priority") => t.priority = q["priority"])
    /\ (Given(q, "category") => RegExpTest(q["category"], t.category))
    /\ (Given(q, "search") => SearchMatches(t, q["search"]))

\* Task.find(query).sort({ createdAt: sortOrder === 'asc' ? 1 : -1 })
RECURSIVE Sorted(_, _)
Sorted(S, asc) ==
    IF S = {} THEN <<>>
    ELSE LET f == CHOOSE i \in S : \A j \in S :
                      IF asc THEN tasks[i].createdAt <= tasks[j].createdAt
                      ELSE tasks[i].createdAt >= tasks[j].createdAt
         IN  <<tasks[f]>> \o Sorted(S \ {f}, asc)

\* .skip(n)
Skip(s, n) == SubSeq(s, n + 1, Len(s))

\* .limit(n): MongoDB reads a limit of 0 as no limit
Limit(s, n) == IF n = 0 \/ n >= Len(s) THEN s ELSE SubSeq(s, 1, n)

\* what JSON makes of Infinity and NaN
JsonNull == 0 - 1

\* the quotient rounded down
TotalPagesFloor(total, limit) ==
    IF limit = 0 THEN JsonNull ELSE total \div limit

\* Math.ceil(total / limit)
TotalPages(total, limit) ==
    IF limit = 0 THEN JsonNull ELSE (total + limit - 1) \div limit

\* page = 1 and limit = 10 when the query string leaves them out
DefaultPage == 1
DefaultLimit == 10
PageOf(q) == IF Has(q, "page") THEN q["page"] ELSE DefaultPage
LimitOf(q) == IF Has(q, "limit") THEN q["limit"] ELSE DefaultLimit

\* GET /api/tasks
ListTasks(r, caller, q) ==
    LET found == Sorted({i \in DOMAIN tasks : Matches(tasks[i], caller, q)},
                        Has(q, "sortOrder") /\ q["sortOrder"] = "asc")
        skip == (PageOf(q) - 1) * LimitOf(q)
        page == Limit(Skip(found, skip), LimitOf(q))
    IN  /\ req[r].pc = "idle"
        /\ last' = IF skip < 0
                   THEN [ServerError("list", caller, 0) EXCEPT !.query = q]
                   ELSE [Response("list", caller, 0, 200, "", page,
                                  <<PageOf(q), TotalPages(Len(found), LimitOf(q)),
                                    Len(page), Len(found)>>)
                         EXCEPT !.query = q]
        /\ UNCHANGED <<tasks, nextId, createdBy, req, users>>

\* the query strings a list request carries
Opt(k, V) == {EmptyObj} \cup {k :> v : v \in V}

Queries ==
    { a @@ s @@ o @@ p @@ l :
        a \in Opt("includeArchived", {"true", "false"}),
        s \in Opt("status", {"completed"}),
        o \in Opt("sortOrder", {"asc"}),
        p \in Opt("page", 0 .. MaxPage),
        l \in Opt("limit", 0 .. MaxLimit) }

\* the stores of at most MaxList tasks
ListStores ==
    UNION { [S -> [user : Users, status : {"pending", "completed"},
                   isArchived : BOOLEAN]] : S \in SUBSET (1 .. MaxList) }

InitList ==
    /\ \E f \in ListStores :
          /\ tasks = [i \in DOMAIN f |->
                        [NewTask([title |-> <<"t">>], f[i].user, i)
                         EXCEPT !.status = f[i].status,
                                !.isArchived = f[i].isArchived]]
          /\ createdBy = [i \in DOMAIN f |-> f[i].user]
    /\ nextId = MaxList + 1
    /\ req = [r \in Slots |-> Idle]
    /\ last = Response("none", "", 0, 0, "", <<>>, <<>>)
    /\ users = InitUsers
    /\ client = NoClient

\* each list request once on each store
NextList ==
    /\ last.op = "none"
    /\ \E c \in Users, q \in Queries : ListTasks(1, c, q)
    /\ UNCHANGED client

SpecList == InitList /\ [][NextList]_vars

\* ------------------------------------------------------------------ filters
\* the query strings of the filters
FilterQueries ==
    { a @@ s @@ p @@ c @@ x :
        a \in Opt("includeArchived", {"true"}),
        s \in Opt("status", {"pending", "completed"}),
        p \in Opt("priority", {"medium", "high"}),
        c \in Opt("category", {<<"w">>, <<"o", "w">>}),
        x \in Opt("search", {<<>>, <<"a">>}) }

\* the stores of at most MaxMatch tasks, of category "Wo", that differ in
\* owner, archived flag, title, description and tags
FilterStores ==
    UNION { [S -> [user : Users, isArchived : BOOLEAN,
                   title : {<<"A">>, <<"b">>},
                   description : {<<>>, <<"b", "a">>},
                   tags : {{}, {<<"b">>, <<"a">>}}]] : S \in SUBSET (1 .. MaxMatch) }

InitFilter ==
    /\ \E f \in FilterStores :
          /\ tasks = [i \in DOMAIN f |->
                        [NewTask([title |-> f[i].title, description |-> f[i].description,
                                  tags |-> f[i].tags, category |-> <<"W", "o">>],
                                 f[i].user, i)
                         EXCEPT !.isArchived = f[i].isArchived]]
          /\ createdBy = [i \in DOMAIN f |-> f[i].user]
    /\ nextId = MaxMatch + 1
    /\ req = [r \in Slots |-> Idle]
    /\ last = Response("none", "", 0, 0, "", <<>>, <<>>)
    /\ users = InitUsers
    /\ client = NoClient

\* each filter query once on each store
NextFilter ==
    /\ last.op = "none"
    /\ \E c \in Users, q \in FilterQueries : ListTasks(1, c, q)
    /\ UNCHANGED client

SpecFilter == InitFilter /\ [][NextFilter]_vars

\* ------------------------------------------------------------------ stats
\* the clock counts ticks; a calendar day is DayLen of them
DayLen == 2

\* new Date(year, month, date) of a clock reading: the start of its day
DayStart(t) == (t \div DayLen) * DayLen

\* status: { $nin: ['completed', 'cancelled'] }, isArchived: false
Open(t) == t.status \notin {"completed", "cancelled"} /\ ~t.isArchived

\* dueDate: { $lte: now }
OverdueOrDueNow(caller, now) ==
    Cardinality({i \in DOMAIN tasks :
                   /\ tasks[i].user = caller
                   /\ tasks[i].dueDate # <<>> /\ tasks[i].dueDate[1] <= now
                   /\ Open(tasks[i])})

\* countDocuments({ user, dueDate: { $lt: now }, status: ..., isArchived: false })
Overdue(caller, now) ==
    Cardinality({i \in DOMAIN tasks :
                   /\ tasks[i].user = caller
                   /\ tasks[i].dueDate # <<>> /\ tasks[i].dueDate[1] < now
                   /\ Open(tasks[i])})

\* countDocuments({ user, dueDate: { $gte: todayStart, $lt: todayEnd }, ... })
DueToday(caller, today) ==
    Cardinality({i \in DOMAIN tasks :
                   /\ tasks[i].user = caller
                   /\ tasks[i].dueDate # <<>>
                   /\ tasks[i].dueDate[1] >= DayStart(today)
                   /\ tasks[i].dueDate[1] < DayStart(today) + DayLen
                   /\ Open(tasks[i])})

\* Task.getTaskStats(userId): the caller's non-archived tasks by status
getTaskStats(caller) ==
    [st \in ValidStatus |->
        Cardinality({i \in DOMAIN tasks :
                       /\ tasks[i].user = caller
                       /\ ~tasks[i].isArchived
                       /\ tasks[i].status = st})]

\* GET /api/tasks/stats/overview; now and today are its two clock readings,
\* kept with the response as the request's inputs
GetStats(r, caller, now, today) ==
    /\ req[r].pc = "idle"
    /\ last' = [Response("stats", caller, 0, 200, "", <<getTaskStats(caller)>>,
                         <<Overdue(caller, now), DueToday(caller, today)>>)
                EXCEPT !.query = [now |-> now, today |-> today]]
    /\ UNCHANGED <<tasks, nextId, createdBy, req, users>>

\* the clock readings of the second day, and the due dates around that day:
\* from the last tick of the day before to the first of the day after
Clock == DayLen .. 2 * DayLen - 1
DueDates == {<<>>} \cup {<<d>> : d \in DayLen - 1 .. 2 * DayLen}

\* the stores of at most MaxStat tasks
StatStores ==
    UNION { [S -> [user : Users, isArchived : BOOLEAN,
                   status : {"pending", "completed", "cancelled"},
                   dueDate : DueDates]] : S \in SUBSET (1 .. MaxStat) }

InitStats ==
    /\ \E f \in StatStores :
          /\ tasks = [i \in DOMAIN f |->
                        [NewTask([title |-> <<"t">>, status |-> f[i].status,
                                  dueDate |-> f[i].dueDate], f[i].user, i)
                         EXCEPT !.isArchived = f[i].isArchived]]
          /\ createdBy = [i \in DOMAIN f |-> f[i].user]
    /\ nextId = MaxStat + 1
    /\ req = [r \in Slots |-> Idle]
    /\ last = Response("none", "", 0, 0, "", <<>>, <<>>)
    /\ users = InitUsers
    /\ client = NoClient

\* one stats request on each store; the second clock reading is the first or
\* the tick after it
NextStats ==
    /\ last.op = "none"
    /\ \E c \in Users, now \in Clock, d \in {0, 1} : GetStats(1, c, now, now + d)
    /\ UNCHANGED client

SpecStats == InitStats /\ [][NextStats]_vars

\* ------------------------------------------------------------------ users
\* the answer of a user route
UserResponse(op, caller, status, message, data) ==
    Response(op, caller, 0, status, message, data, <<>>)

\* GET /api/users/profile
GetProfile(r, caller) ==
    /\ req[r].pc = "idle"
    /\ last' = UserResponse("profile", caller, 200, "", <<users[caller]>>)
    /\ UNCHANGED <<tasks, nextId, createdBy, req, users>>

\* validateProfileUpdate + handleValidationErrors
validateProfileUpdate(b) == Has(b, "name") => b["name"] # <<>>

allowedFields == {"name", "email", "avatar"}

\* the updates applied without the allow-list
Unfiltered(b) == b

\* the keys of the body that allowedFields includes
Allowed(b) == [k \in DOMAIN b \cap allowedFields |-> b[k]]

\* User.findOne({ email })
EmailTaken(email) == \E u \in DOMAIN users : users[u].email = email

\* a collection without the unique index
NotIndexed(caller, email) == FALSE

\* the unique index on email: another user's document holds the address
EmailIndexed(caller, email) ==
    \E u \in DOMAIN users \ {caller} : users[u].email = email

\* PUT /api/users/profile: User.findByIdAndUpdate(req.user.id, updates) and
\* the response; the store refuses a write that breaks the unique index
ProfileApply(caller, updates) ==
    LET user == [f \in DOMAIN users[caller] |->
                    IF f \in DOMAIN updates THEN updates[f] ELSE users[caller][f]]
    IN  IF Has(updates, "email") /\ EmailIndexed(caller, updates["email"])
        THEN /\ last' = DuplicateKey("setProfile", caller, 0)
             /\ UNCHANGED users
        ELSE /\ users' = [users EXCEPT ![caller] = user]
             /\ last' = UserResponse("setProfile", caller, 200,
                                     "Profile updated successfully", <<user>>)

\* PUT /api/users/profile up to the email lookup; found is what follows it
ProfileLookup(caller, b, found) ==
    IF ~validateProfileUpdate(b)
    THEN /\ last' = ValidationError("setProfile", caller, 0)
         /\ UNCHANGED <<users, req>>
    ELSE IF /\ Has(Allowed(b), "email")
            /\ Allowed(b)["email"] # users[caller].email
            /\ EmailTaken(Allowed(b)["email"])
    THEN /\ last' = UserResponse("setProfile", caller, 400,
                                 "Email already exists", <<>>)
         /\ UNCHANGED <<users, req>>
    ELSE found

\* PUT /api/users/profile, the whole handler
UpdateProfile(r, caller, b) ==
    /\ req[r].pc = "idle"
    /\ ProfileLookup(caller, b, ProfileApply(caller, Allowed(b)) /\ UNCHANGED req)
    /\ UNCHANGED <<tasks, nextId, createdBy>>

\* PUT /api/users/profile, first await (User.findOne, or none when the email
\* is not being changed)
ProfileFind(r, caller, b) ==
    /\ req[r].pc = "idle"
    /\ ProfileLookup(caller, b,
                     /\ Await(r, "profile", caller, 0, Allowed(b), <<>>)
                     /\ UNCHANGED users)
    /\ UNCHANGED <<tasks, nextId, createdBy>>

\* PUT /api/users/profile, second await
ProfileWrite(r) ==
    /\ req[r].pc = "profile"
    /\ req' = [req EXCEPT ![r] = Idle]
    /\ ProfileApply(req[r].caller, req[r].body)
    /\ UNCHANGED <<tasks, nextId, createdBy>>

\* PUT /api/users/change-password
ChangePassword(r, caller, currentPassword, newPassword) ==
    /\ req[r].pc = "idle"
    /\ IF users[caller].password # currentPassword
       THEN /\ last' = UserResponse("password", caller, 400,
                                    "Current password is incorrect", <<>>)
            /\ UNCHANGED users
       ELSE /\ users' = [users EXCEPT ![caller].password = newPassword]
            /\ last' = UserResponse("password", caller, 200,
                                    "Password changed successfully", <<>>)
    /\ UNCHANGED <<tasks, nextId, createdBy, req>>

\* the account removed from the collection
RemoveUser(caller) == [u \in DOMAIN users \ {caller} |-> users[u]]

\* User.findByIdAndUpdate(req.user.id, { isActive: false })
Deactivate(caller) == [users EXCEPT ![caller].isActive = FALSE]

\* DELETE /api/users/account
DeleteAccount(r, caller) ==
    /\ req[r].pc = "idle"
    /\ users' = Deactivate(caller)
    /\ last' = UserResponse("deactivate", caller, 200,
                            "Account deactivated successfully", <<>>)
    /\ UNCHANGED <<tasks, nextId, createdBy, req>>

\* GET /api/users/stats
UserStats(r, caller) ==
    /\ req[r].pc = "idle"
    /\ last' = UserResponse("userStats", caller, 200, "",
                            <<[user |-> [name |-> users[caller].name,
                                         email |-> users[caller].email],
                               tasks |-> getTaskStats(caller)]>>)
    /\ UNCHANGED <<tasks, nextId, createdBy, req, users>>

\* ------------------------------------------------------------------ auth
\* the auth middleware on a bearer credential [kind, id]: 401 unless the token
\* is present, well formed, unexpired, rightly signed and names a stored user,
\* 403 when that user is not active, else next()
auth(cred) ==
    IF cred.kind # "valid" \/ cred.id \notin DOMAIN users THEN 401
    ELSE IF ~users[cred.id].isActive THEN 403
    ELSE 200

\* the answer of the auth middleware when it does not call next(); it is the
\* same on every route
Denied(cred) ==
    Response("auth", cred.id, 0, auth(cred),
             IF auth(cred) = 401 THEN "Not authorized" ELSE "Account deactivated",
             <<>>, <<>>)

\* a route whose handler runs for any credential that names a user
RouteUnverified(cred, handler) ==
    IF cred.id \in DOMAIN users
    THEN handler
    ELSE /\ last' = Denied(cred)
         /\ UNCHANGED <<tasks, nextId, createdBy, req, users>>

\* router.METHOD(path, auth, ..., handler): the handler runs when auth calls
\* next(), with req.user the user of the credential
Route(cred, handler) ==
    IF auth(cred) = 200
    THEN handler
    ELSE /\ last' = Denied(cred)
         /\ UNCHANGED <<tasks, nextId, createdBy, req, users>>

\* the credentials a request carries
Credentials ==
    [kind : {"valid"}, id : Users]
        \cup [kind : {"expired", "badsig"}, id : {"A"}]
        \cup [kind : {"missing", "malformed"}, id : {""}]

\* the bodies of the profile and password requests
ProfileBodies ==
    { [name |-> <<"A">>, role |-> "admin", isActive |-> FALSE],
      [email |-> <<"B", "@">>] }

PasswordBodies ==
    { [currentPassword |-> <<"p">>, newPassword |-> <<"p">>],
      [currentPassword |-> <<"x">>, newPassword |-> <<"p">>] }

\* one request with the credential cred, on any route of the two routers
Request(cred) ==
    LET c == cred.id
    IN  \/ Route(cred, ListTasks(1, c, EmptyObj))
        \/ \E i \in IDs : Route(cred, GetTask(1, c, i))
        \/ Route(cred, CreateTask(1, c, [title |-> <<"t">>]))
        \/ \E i \in IDs : Route(cred, UpdateTask(1, c, i, [isArchived |-> TRUE]))
        \/ \E i \in IDs : Route(cred, DeleteTask(1, c, i))
        \/ \E i \in IDs : Route(cred, ArchiveTask(1, c, i))
        \/ Route(cred, GetStats(1, c, DayLen, DayLen))
        \/ Route(cred, BulkUpdate(1, c, Array(IDs), <<[isArchived |-> TRUE]>>))
        \/ Route(cred, GetProfile(1, c))
        \/ \E b \in ProfileBodies : Route(cred, UpdateProfile(1, c, b))
        \/ \E b \in PasswordBodies :
              Route(cred, ChangePassword(1, c, b.currentPassword, b.newPassword))
        \/ Route(cred, DeleteAccount(1, c))
        \/ Route(cred, UserStats(1, c))

NextAuth == \E cred \in Credentials : Request(cred) /\ UNCHANGED client

SpecAuth == Init /\ [][NextAuth]_vars

\* the bodies of the concurrent profile requests: keys outside the allow-list,
\* an address nobody holds, and the address B registered with
UserBodies ==
    { [name |-> <<"n">>, role |-> "admin", isActive |-> FALSE, password |-> <<"x">>],
      [email |-> <<"C", "@">>, avatar |-> <<"v">>],
      [email |-> <<"B", "@">>] }

\* profile requests interleaved at their awaits
NextUsers ==
    \E r \in Slots :
        \/ \E c \in Users : GetProfile(r, c) /\ UNCHANGED client
        \/ \E c \in Users, b \in UserBodies : ProfileFind(r, c, b) /\ UNCHANGED client
        \/ ProfileWrite(r) /\ UNCHANGED client

SpecUsers == Init /\ [][NextUsers]_vars

\* ------------------------------------------------------------------ browser
\* a bearer token is <<user, issue>>; null is <<>>
NoToken == <<>>

\* the token an earlier session of B left in localStorage
OldToken == <<"B", "old">>

\* the token /auth/login and /auth/register answer with
NewToken(u) == <<u, "new">>

UserOf(t) == t[1]

\* a setToken that does not persist the token
SetTokenMemory(c, t) == [c EXCEPT !.token = t]

\* ApiClient.setToken: the field and the 'auth_token' entry of localStorage
SetToken(c, t) == [c EXCEPT !.token = t, !.stored = t]

\* ApiClient.clearToken
ClearToken(c) == [c EXCEPT !.token = NoToken, !.stored = NoToken]

\* AuthProvider: const isAuthenticated = !!user && !!apiClient.getToken()
isAuthenticated(c) == c.user # <<>> /\ c.token # NoToken

\* DashboardLayout and ProtectedRoute: what they render (view) and the effect
\* that pushes /login; they are mounted on the dashboard route only
Render(c) ==
    IF c.path # "/dashboard" THEN [c EXCEPT !.view = "none"]
    ELSE IF c.loading THEN [c EXCEPT !.view = "spinner"]
    ELSE IF ~isAuthenticated(c) THEN [c EXCEPT !.view = "none", !.path = "/login"]
    ELSE [c EXCEPT !.view = "children"]

\* React renders again when a state of the provider (user, loading) or the
\* route changed; the token of the API client is no such state
Commit(c) ==
    IF c.user # client.user \/ c.loading # client.loading \/ c.path # client.path
    THEN Render(c)
    ELSE c

\* a request in flight: the function awaiting it, the token the request
\* interceptor attached, and the account of a login or signup
Call(op, tok, as) == [op |-> op, tok |-> tok, as |-> as]

\* a page load: the ApiClient constructor reads the stored token, AuthProvider
\* mounts with user null and loading true, and its effect runs checkAuthStatus
\* (getProfile when there is a token, else straight to setLoading(false))
Load(stored, path) ==
    LET c == [token |-> stored, stored |-> stored, user |-> <<>>, loading |-> TRUE,
              path |-> path, view |-> "none", calls |-> {}]
    IN  IF stored # NoToken
        THEN Render([c EXCEPT !.calls = {Call("check", stored, "")}])
        ELSE Render([c EXCEPT !.loading = FALSE])

\* the response interceptor on a 401: clearToken and window.location.href =
\* '/login', which loads the login page anew
Unauthorized == Load(NoToken, "/login")

\* the outcomes of a request: a success, a 401, any other failure
Outcomes == {"ok", "401", "error"}

server == <<tasks, nextId, createdBy, req, last, users>>

\* a call is sent
Send(c, k) == [c EXCEPT !.calls = @ \cup {k}]

\* a call is answered
Done(c, k) == [c EXCEPT !.calls = @ \ {k}]

\* checkAuthStatus from the answer of getProfile
CheckDone(k, o) ==
    /\ k \in client.calls
    /\ k.op = "check"
    /\ client' =
          IF o = "401" THEN Unauthorized
          ELSE IF o = "ok"
          THEN Commit([Done(client, k) EXCEPT !.user = <<UserOf(k.tok)>>,
                                             !.loading = FALSE])
          ELSE Commit([ClearToken(Done(client, k)) EXCEPT !.loading = FALSE])
    /\ UNCHANGED server

\* login and signup up to the await of the request
AuthStart(op, u) ==
    /\ Cardinality(client.calls) < MaxCalls
    /\ client' = Commit([Send(client, Call(op, client.token, u))
                            EXCEPT !.loading = TRUE])
    /\ UNCHANGED server

\* login and signup from the answer: apiClient sets the token of a success,
\* the provider sets the user; finally setLoading(false)
AuthDone(op, k, o) ==
    /\ k \in client.calls
    /\ k.op = op
    /\ client' =
          IF o = "401" THEN Unauthorized
          ELSE IF o = "ok"
          THEN Commit([SetToken(Done(client, k), NewToken(k.as))
                         EXCEPT !.user = <<k.as>>, !.loading = FALSE])
          ELSE Commit([Done(client, k) EXCEPT !.loading = FALSE])
    /\ UNCHANGED server

\* AuthProvider.login
LoginStart(u) == AuthStart("login", u)

LoginDone(k, o) == AuthDone("login", k, o)

\* AuthProvider.signup
SignupStart(u) == AuthStart("signup", u)

SignupDone(k, o) == AuthDone("signup", k, o)

\* AuthProvider.logout up to the await of the request
LogoutStart ==
    /\ Cardinality(client.calls) < MaxCalls
    /\ client' = Send(client, Call("logout", client.token, ""))
    /\ UNCHANGED server

\* AuthProvider.logout from the answer: apiClient.logout clears the token on
\* success and on failure, the provider clears the user and the token again
LogoutDone(k, o) ==
    /\ k \in client.calls
    /\ k.op = "logout"
    /\ client' =
          IF o = "401" THEN Unauthorized
          ELSE Commit([ClearToken(Done(client, k)) EXCEPT !.user = <<>>])
    /\ UNCHANGED server

\* AuthProvider.refreshUser up to the await of the request
RefreshStart ==
    /\ Cardinality(client.calls) < MaxCalls
    /\ client.token # NoToken
    /\ client' = Send(client, Call("refresh", client.token, ""))
    /\ UNCHANGED server

\* AuthProvider.refreshUser from the answer of getProfile
RefreshDone(k, o) ==
    /\ k \in client.calls
    /\ k.op = "refresh"
    /\ client' =
          IF o = "401" THEN Unauthorized
          ELSE IF o = "ok"
          THEN Commit([Done(client, k) EXCEPT !.user = <<UserOf(k.tok)>>])
          ELSE Commit([ClearToken(Done(client, k)) EXCEPT !.user = <<>>])
    /\ UNCHANGED server

\* the user follows a link to the dashboard
GoDashboard ==
    /\ client.path # "/dashboard"
    /\ client' = Render([client EXCEPT !.path = "/dashboard"])
    /\ UNCHANGED server

\* the user reloads the page
Reload ==
    /\ client' = Load(client.stored, client.path)
    /\ UNCHANGED server

\* the browser opens the application, with or without a stored token
InitClient ==
    /\ tasks = EmptyObj
    /\ nextId = 1
    /\ createdBy = EmptyObj
    /\ req = [r \in Slots |-> Idle]
    /\ last = Response("none", "", 0, 0, "", <<>>, <<>>)
    /\ users = InitUsers
    /\ \E t \in {NoToken, OldToken}, p \in {"/login", "/dashboard"} :
          client = Load(t, p)

NextClient ==
    \/ \E k \in client.calls, o \in Outcomes : CheckDone(k, o)
    \/ \E u \in Users : LoginStart(u)
    \/ \E k \in client.calls, o \in Outcomes : LoginDone(k, o)
    \/ \E u \in Users : SignupStart(u)
    \/ \E k \in client.calls, o \in Outcomes : SignupDone(k, o)
    \/ LogoutStart
    \/ \E k \in client.calls, o \in Outcomes : LogoutDone(k, o)
    \/ RefreshStart
    \/ \E k \in client.calls, o \in Outcomes : RefreshDone(k, o)
    \/ GoDashboard
    \/ Reload

SpecClient == InitClient /\ [][NextClient]_vars

\* ------------------------------------------------------------------ tasks page
\* the user the page is opened by
PageUser == "A"

\* ApiClient.getTasks sends GET /tasks with no query string
getTasksQuery == EmptyObj

\* an array of tasks as the page keeps it: _id -> task
AsList(data) == [i \in {data[n]._id : n \in 1 .. Len(data)} |->
                    (CHOOSE t \in {data[n] : n \in 1 .. Len(data)} : t._id = i)]

\* the state of TasksPage when it mounts: no tasks, loading, and loadTasks
\* called by its effect; failed is whether an error toast was shown
NewPage == [list |-> EmptyObj, loading |-> TRUE, failed |-> FALSE, calls |-> {}]

\* loadTasks: the answer of getTasks becomes the list
LoadTasks ==
    /\ client.loading
    /\ ListTasks(1, PageUser, getTasksQuery)
    /\ client' = [client EXCEPT !.list = AsList(last'.data), !.loading = FALSE]

\* a handler of the page up to the await of its request; seen is the tasks
\* state of the render whose button was clicked, which the handler closes over
PageCall(op, id, body) ==
    [op |-> op, id |-> id, body |-> body, seen |-> client.list,
     pc |-> "sent", status |-> 0, data |-> <<>>]

PageStart(op, id, body) ==
    /\ ~client.loading
    /\ id \in DOMAIN client.list
    /\ Cardinality(client.calls) < MaxCalls
    /\ client' = [client EXCEPT !.calls = @ \cup {PageCall(op, id, body)}]
    /\ UNCHANGED server

\* the answer reaches the browser: the handler resumes with it
Answered(k) ==
    client' = [client EXCEPT !.calls = (@ \ {k}) \cup
                  {[k EXCEPT !.pc = "answered", !.status = last'.status,
                             !.data = last'.data]}]

\* the server handles the request of a call in flight
Serve(k) ==
    /\ k \in client.calls
    /\ k.pc = "sent"
    /\ IF k.op = "delete"
       THEN DeleteTask(1, PageUser, k.id)
       ELSE UpdateTask(1, PageUser, k.id, k.body)
    /\ Answered(k)

\* the end of a handler: setTasks on success, an error toast otherwise
PageDone(k, list) ==
    /\ k \in client.calls
    /\ k.pc = "answered"
    /\ client' = IF k.status = 200
                 THEN [client EXCEPT !.calls = @ \ {k}, !.list = list]
                 ELSE [client EXCEPT !.calls = @ \ {k}, !.failed = TRUE]
    /\ UNCHANGED server

\* tasks.filter(task => task._id !== taskId)
Filter(k) == [i \in DOMAIN k.seen \ {k.id} |-> k.seen[i]]

\* { ...task, ...updatedTask }; the spread of null adds nothing
Spread(task, data) == IF data = <<>> THEN task ELSE data[1]

\* TasksPage.deleteTask
DeleteStart(id) == PageStart("delete", id, EmptyObj)

DeleteDone(k) == k.op = "delete" /\ PageDone(k, Filter(k))

\* TasksPage.updateTask
UpdateStart(id, body) == PageStart("update", id, body)

UpdateDone(k) ==
    /\ k.op = "update"
    /\ PageDone(k, [i \in DOMAIN k.seen |->
                       IF i = k.id THEN Spread(k.seen[i], k.data) ELSE k.seen[i]])

\* TasksPage.updateTaskStatus
StatusStart(id, status) == PageStart("status", id, [status |-> status])

StatusDone(k) ==
    /\ k.op = "status"
    /\ PageDone(k, [i \in DOMAIN k.seen |->
                       IF i = k.id THEN [k.seen[i] EXCEPT !.status = k.body["status"]]
                       ELSE k.seen[i]])

\* the stores the page is opened on: tasks of any owner, archived or not
PageStores ==
    UNION { [S -> [user : Users, isArchived : BOOLEAN]] : S \in {1 .. n : n \in IDs} }

InitPage ==
    /\ \E f \in PageStores :
          /\ tasks = [i \in DOMAIN f |->
                        [NewTask([title |-> <<"t">>], f[i].user, i)
                         EXCEPT !.isArchived = f[i].isArchived]]
          /\ createdBy = [i \in DOMAIN f |-> f[i].user]
    /\ nextId = MaxId + 1
    /\ req = [r \in Slots |-> Idle]
    /\ last = Response("none", "", 0, 0, "", <<>>, <<>>)
    /\ users = InitUsers
    /\ client = NewPage

NextPage ==
    \/ LoadTasks
    \/ \E i \in IDs : DeleteStart(i)
    \/ \E i \in IDs : UpdateStart(i, [priority |-> "high"])
    \/ \E i \in IDs : StatusStart(i, "completed")
    \/ \E k \in client.calls : Serve(k)
    \/ \E k \in client.calls : DeleteDone(k)
    \/ \E k \in client.calls : UpdateDone(k)
    \/ \E k \in client.calls : StatusDone(k)

SpecPage == InitPage /\ [][NextPage]_vars

\* ------------------------------------------------------------------ claims
Owns(c, i) == i \in DOMAIN tasks /\ tasks[i].user = c

IsList == last.op = "list" /\ last.status = 200

\* the filters of a list request other than owner and archived flag
PassesFilters(t, q) ==
    /\ (Has(q, "status") => t.status = q["status"])
    /\ (Has(q, "priority") => t.priority = q["priority"])

WantsArchived(q) == Has(q, "includeArchived") /\ q["includeArchived"] = "true"

\* C1: every task a list request returns is owned by the caller, and the total
\* record count is the number of the caller's tasks that pass the archived
\* condition and the filters, whatever the query string.
NoCrossUserLeak ==
    IsList =>
        /\ \A k \in 1 .. Len(last.data) : last.data[k].user = last.caller
        /\ last.info[4] =
              Cardinality({i \in DOMAIN tasks :
                             /\ tasks[i].user = last.caller
                             /\ (WantsArchived(last.query) \/ ~tasks[i].isArchived)
                             /\ PassesFilters(tasks[i], last.query)})

\* a list answered with tasks while another user's task passes the same filters
NoCrossUserLeakWitness ==
    /\ IsList
    /\ Len(last.data) >= 1
    /\ \E i \in DOMAIN tasks :
          /\ tasks[i].user # last.caller
          /\ ~tasks[i].isArchived
          /\ PassesFilters(tasks[i], last.query)

\* C2: every stored task is owned by the caller who created it.
OwnerSetOnce ==
    \A i \in DOMAIN tasks : tasks[i].user = createdBy[i]

WriteOps == {"update", "delete", "archive", "bulk"}

\* C4: no update, delete, archive toggle or bulk update changes or removes a
\* task that its caller does not own at the moment of the write.
WritesOnlyOwn ==
    [][ last'.op \in WriteOps =>
          \A i \in DOMAIN tasks :
             tasks[i].user # last'.caller
                => i \in DOMAIN tasks' /\ tasks'[i] = tasks[i]
      ]_vars

\* C5: an accepted bulk update changes only tasks named in the id list and
\* owned by the caller, removes none, and its matched count is at most the
\* number of the caller's tasks in the list.
BulkFrame ==
    [][ last'.op = "bulk" /\ last'.status = 200 =>
          /\ DOMAIN tasks' = DOMAIN tasks
          /\ \A i \in DOMAIN tasks :
                tasks'[i] # tasks[i] => i \in last'.ids /\ tasks[i].user = last'.caller
          /\ last'.info[1] <= Cardinality({i \in last'.ids : Owns(last'.caller, i)})
      ]_vars

\* a bulk update naming a task of the caller, which it changed, and a task
\* another user created, still as it was created
BulkFrameWitness ==
    /\ last.op = "bulk"
    /\ last.status = 200
    /\ last.info = <<1, 1>>
    /\ \E i \in last.ids \cap DOMAIN tasks, j \in last.ids \cap DOMAIN tasks :
          /\ tasks[i].user = last.caller
          /\ tasks[i].isArchived
          /\ createdBy[j] # last.caller
          /\ tasks[j].user = createdBy[j]
          /\ ~tasks[j].isArchived

\* the bulk bodies without a non-empty id list or without a non-empty update
BadBulkBodies ==
    {b \in BulkBodies :
        \/ b.taskIds.kind \in {"missing", "string"}
        \/ b.taskIds.ids = {}
        \/ b.updates = <<>>
        \/ b.updates = <<EmptyObj>>}

\* C6: a bulk update whose id list is missing, not a list or empty, or whose
\* update object is missing or empty, is answered 400 and changes no task.
BulkRejects ==
    [][ last'.op = "bulk" =>
          \A b \in BadBulkBodies :
             BulkUpdate(1, last'.caller, b.taskIds, b.updates)
                => last'.status = 400 /\ tasks' = tasks
      ]_vars

\* a bulk update rejected while the store holds tasks
BulkRejectsWitness ==
    /\ last.op = "bulk"
    /\ last.status = 400
    /\ last.message = "Task IDs are required"
    /\ DOMAIN tasks # {}

\* C7: every stored task has a status and a priority of the enumerations.
EnumsValid ==
    \A i \in DOMAIN tasks :
        tasks[i].status \in ValidStatus /\ tasks[i].priority \in ValidPriority

IncludeArchivedLaw ==
    IsList =>
        LET mine == {i \in DOMAIN tasks :
                       tasks[i].user = last.caller /\ PassesFilters(tasks[i], last.query)}
        IN  IF WantsArchived(last.query)
            THEN last.info[4] = Cardinality(mine)
            ELSE /\ last.info[4] = Cardinality({i \in mine : ~tasks[i].isArchived})
                 /\ \A k \in 1 .. Len(last.data) : ~last.data[k].isArchived

\* a list with includeArchived=true that returned an archived and a
\* non-archived task
IncludeArchivedLawWitness ==
    /\ IsList
    /\ WantsArchived(last.query)
    /\ \E k, l \in 1 .. Len(last.data) :
          last.data[k].isArchived /\ ~last.data[l].isArchived

\* C10: a list answered with success returns the elements (page-1)*limit ..
\* (page-1)*limit+limit-1 of the sorted matching tasks, at most limit of them,
\* and reports their number as count.
PageWindow ==
    IsList =>
        LET q == last.query
            all == Sorted({i \in DOMAIN tasks : Matches(tasks[i], last.caller, q)},
                          Has(q, "sortOrder") /\ q["sortOrder"] = "asc")
            first == (PageOf(q) - 1) * LimitOf(q) + 1
            end == IF first + LimitOf(q) - 1 <= Len(all)
                   THEN first + LimitOf(q) - 1 ELSE Len(all)
        IN  /\ last.data = SubSeq(all, first, end)
            /\ Len(last.data) <= LimitOf(q)
            /\ last.info[3] = Len(last.data)

\* the caller's tasks that pass the archived condition and the filters of the
\* last list request
MatchCount ==
    Cardinality({i \in DOMAIN tasks :
                   /\ tasks[i].user = last.caller
                   /\ (WantsArchived(last.query) \/ ~tasks[i].isArchived)
                   /\ PassesFilters(tasks[i], last.query)})

\* the least k with k * l >= n
Ceil(n, l) == CHOOSE k \in 0 .. n : k * l >= n /\ \A j \in 0 .. n : j * l >= n => k <= j

\* C11: a list with page size L >= 1 and page p >= 1 over N matching tasks
\* reports N as total record count and ceil(N/L) as total pages, returns L
\* tasks on every page before the last, and N mod L (L when that is 0) on the
\* last page.
PaginationLaw ==
    IsList /\ LimitOf(last.query) >= 1 /\ PageOf(last.query) >= 1 =>
        LET N == MatchCount
            L == LimitOf(last.query)
            p == PageOf(last.query)
        IN  /\ last.info[4] = N
            /\ last.info[2] = Ceil(N, L)
            /\ (p < Ceil(N, L) => Len(last.data) = L)
            /\ (p = Ceil(N, L) => Len(last.data) = IF N % L = 0 THEN L ELSE N % L)

\* the last of several pages, shorter than the page size
PaginationLawWitness ==
    /\ IsList
    /\ LimitOf(last.query) >= 2
    /\ last.info[2] >= 2
    /\ PageOf(last.query) = last.info[2]
    /\ Len(last.data) = 1

\* C12: the tasks a list request matches are exactly those of the caller that
\* satisfy the archived condition, every status, priority and category filter
\* the query names and, when it names a search, match it in the title, in the
\* description or in some tag.
FilterLaw ==
    IsList =>
        LET q == last.query
            sat(t) ==
                /\ t.user = last.caller
                /\ (WantsArchived(q) \/ ~t.isArchived)
                /\ ("status" \in DOMAIN q => t.status = q["status"])
                /\ ("priority" \in DOMAIN q => t.priority = q["priority"])
                /\ ("category" \in DOMAIN q => RegExpTest(q["category"], t.category))
                /\ ("search" \in DOMAIN q =>
                      \/ RegExpTest(q["search"], t.title)
                      \/ RegExpTest(q["search"], t.description)
                      \/ \E g \in t.tags : RegExpTest(q["search"], g))
            matching == {i \in DOMAIN tasks : sat(tasks[i])}
        IN  /\ {last.data[k]._id : k \in 1 .. Len(last.data)} = matching
            /\ last.info[4] = Cardinality(matching)

\* a task returned for a search that only its description matches, under a
\* status filter it passes
FilterLawWitness ==
    /\ IsList
    /\ Has(last.query, "search") /\ last.query["search"] = <<"a">>
    /\ Has(last.query, "status")
    /\ Has(last.query, "category")
    /\ \E k \in 1 .. Len(last.data) :
          /\ last.data[k].title = <<"b">>
          /\ last.data[k].tags = {}

\* C13: a create answered 201 stores exactly one new task, owned by the caller
\* whatever owner the body names, and returns it; status, priority and archived
\* flag the body leaves out are pending, medium and false; no task that
\* existed is changed.
CreateStamped ==
    [][ LET c == last'.caller
            n == last'.id
        IN  last'.op = "create" /\ last'.status = 201 =>
               /\ n \notin DOMAIN tasks
               /\ DOMAIN tasks' = DOMAIN tasks \cup {n}
               /\ \A i \in DOMAIN tasks : tasks'[i] = tasks[i]
               /\ tasks'[n].user = c
               /\ last'.data = <<tasks'[n]>>
               /\ \A b \in CreateBodies :
                     CreateTask(1, c, b) =>
                        /\ (~Has(b, "status") => tasks'[n].status = "pending")
                        /\ (~Has(b, "priority") => tasks'[n].priority = "medium")
                        /\ (~Has(b, "isArchived") => ~tasks'[n].isArchived)
      ]_vars

\* a task just created next to a task of another user
CreateStampedWitness ==
    /\ last.op = "create"
    /\ last.status = 201
    /\ last.id \in DOMAIN tasks
    /\ tasks[last.id] = last.data[1]
    /\ tasks[last.id].user = last.caller
    /\ \E j \in DOMAIN tasks : tasks[j].user # last.caller

\* C14: the stats overview reports as overdue the caller's non-archived tasks
\* due strictly before the clock reading and neither completed nor cancelled,
\* as dueToday those due from the start of the day of the clock reading up to,
\* not including, the start of the next day, and changes nothing stored.
StatsLaw ==
    [][ last'.op = "stats" =>
          LET c == last'.caller
              mine == {i \in DOMAIN tasks :
                         /\ tasks[i].user = c
                         /\ ~tasks[i].isArchived
                         /\ tasks[i].dueDate # <<>>
                         /\ tasks[i].status # "completed"
                         /\ tasks[i].status # "cancelled"}
              start == CHOOSE d \in 0 .. last'.query.today :
                          d % DayLen = 0 /\ last'.query.today - d < DayLen
          IN  /\ last'.info[1] =
                    Cardinality({i \in mine : tasks[i].dueDate[1] < last'.query.now})
              /\ last'.info[2] =
                    Cardinality({i \in mine : /\ start <= tasks[i].dueDate[1]
                                              /\ tasks[i].dueDate[1] < start + DayLen})
              /\ tasks' = tasks
              /\ users' = users
      ]_vars

\* a stats answer counting one task of the caller as overdue and as due today
\* while another user has an open task due before the clock reading
StatsLawWitness ==
    /\ last.op = "stats"
    /\ last.info = <<1, 1>>
    /\ \E j \in DOMAIN tasks :
          /\ tasks[j].user # last.caller
          /\ Open(tasks[j])
          /\ tasks[j].dueDate # <<>>
          /\ tasks[j].dueDate[1] < last.query.now

\* the credentials the verifier does not accept
BadCredentials == {cred \in Credentials : cred.kind # "valid"}

\* C15: on every task and user route, a request whose token is missing,
\* malformed, expired or wrongly signed is answered 401, and a request whose
\* token names a user that is not active is answered 403; in both cases the
\* answer carries no record and no task or user is changed.  (Every answer
\* names the user of the credential, so only the credentials of that user can
\* be the one of the request answered.)
AuthFirst ==
    [][ /\ \A cred \in BadCredentials :
              cred.id = last'.caller /\ Request(cred) => last'.status = 401
        /\ \A cred \in Credentials \ BadCredentials :
              /\ cred.id = last'.caller
              /\ ~users[cred.id].isActive
              /\ Request(cred)
              => last'.status = 403
        /\ last'.status \in {401, 403} =>
              /\ last'.data = <<>>
              /\ tasks' = tasks
              /\ users' = users
      ]_vars

\* a task request of a deactivated user who owns a task, answered 403
AuthFirstWitness ==
    /\ last.status = 403
    /\ last.op = "auth"
    /\ ~users[last.caller].isActive
    /\ \E i \in DOMAIN tasks : tasks[i].user = last.caller

\* C16: a deactivation sets the active flag of the caller to false and changes
\* nothing else: not the other fields of the account, no other account and no
\* task; and no request removes an account.
SoftDelete ==
    [][ /\ DOMAIN users' = DOMAIN users
        /\ last'.op = "deactivate" /\ last'.status = 200 =>
              /\ users' = [users EXCEPT ![last'.caller].isActive = FALSE]
              /\ tasks' = tasks
      ]_vars

\* an account just deactivated, not active, whose tasks are still stored
SoftDeleteWitness ==
    /\ last.op = "deactivate"
    /\ last.status = 200
    /\ last.caller \in DOMAIN users
    /\ ~users[last.caller].isActive
    /\ \E i \in DOMAIN tasks : tasks[i].user = last.caller

\* C17 as stated: a bulk update either is answered with success carrying both
\* counts, or has changed no task.
BulkAllOrNothing ==
    [][ last'.op = "bulk" =>
          \/ last'.status = 200 /\ Len(last'.info) = 2
          \/ tasks' = tasks
      ]_vars

\* C17, amended: a bulk update is rejected with 400 and has changed no task;
\* or is answered with success and both counts, the matched count that of
\* the caller's tasks the id list names and the modified count that of the
\* tasks changed, all among them; or the store failed and it is answered with an error, having
\* changed at most tasks of the caller that the id list names.
BulkOutcome ==
    [][ last'.op = "bulk" =>
          LET mine == {i \in DOMAIN tasks :
                         i \in last'.ids /\ tasks[i].user = last'.caller}
              touched == {i \in DOMAIN tasks : tasks'[i] # tasks[i]}
          IN  /\ DOMAIN tasks' = DOMAIN tasks
              /\ \/ last'.status = 400 /\ touched = {}
                 \/ /\ last'.status = 200
                    /\ Len(last'.info) = 2
                    /\ last'.info[1] = Cardinality(mine)
                    /\ last'.info[2] = Cardinality(touched)
                    /\ touched \subseteq mine
                 \/ last'.status = 500 /\ touched \subseteq mine
      ]_vars

\* a bulk update answered with an error after it archived one of two tasks of
\* the caller that the id list names
BulkOutcomeWitness ==
    /\ last.op = "bulk"
    /\ last.status = 500
    /\ \E i \in last.ids \cap DOMAIN tasks, j \in last.ids \cap DOMAIN tasks :
          /\ tasks[i].user = last.caller
          /\ tasks[j].user = last.caller
          /\ tasks[i].isArchived
          /\ ~tasks[j].isArchived

\* C18: a delete answered with success removes the task it names and no
\* other, and an id whose task was deleted (the store handed it out and holds
\* no task under it) names no task ever after, so that every later request on
\* it is answered 404 and no list shows it.
DeletedStaysGone ==
    [][ /\ last'.op = "delete" /\ last'.status = 200 =>
              /\ last'.id \in DOMAIN tasks
              /\ tasks' = [i \in DOMAIN tasks \ {last'.id} |-> tasks[i]]
        /\ \A i \in IDs :
              i < nextId /\ i \notin DOMAIN tasks => i \notin DOMAIN tasks'
      ]_vars

UpdateReturnsRecord ==
    [][ last'.op = "update" =>
          /\ DOMAIN tasks' \subseteq DOMAIN tasks
          /\ \/ last'.status = 404 /\ tasks' = tasks
             \/ /\ last'.status = 200
                /\ last'.id \in DOMAIN tasks'
                /\ last'.data = <<tasks'[last'.id]>>
      ]_vars

\* C21: two archive toggles of the same task that overlap (the second one
\* to finish read the task before the first one wrote it) leave the task,
\* once both have completed, with the archived value it had when they read it.
DoubleToggleRestores ==
    [][ \A r \in Slots :
          ( /\ req[r].pc = "archive"
            /\ last.op = "archive"
            /\ last.status = 200
            /\ last.id = req[r].id
            /\ last.data[1].isArchived # req[r].doc[1].isArchived
            /\ ArchiveSave(r)
            /\ req[r].id \in DOMAIN tasks' )
          => tasks'[req[r].id].isArchived = req[r].doc[1].isArchived
      ]_vars

\* C22: an update whose write follows its lookup by any number of other
\* updates of the same task is answered with success, and its write leaves
\* every field its body names at the body's value and every other field at
\* the value stored before the write (the value of whoever wrote it last).
LastWriteWins ==
    [][ \A r \in Slots :
          (req[r].pc = "update" /\ UpdateWrite(r)) =>
              LET id == req[r].id
                  s == CastUpdate(req[r].body)
              IN  /\ last'.status = 200
                  /\ last'.data = <<tasks'[id]>>
                  /\ \A f \in DOMAIN tasks[id] :
                         tasks'[id][f] = IF Has(s, f) THEN s[f] ELSE tasks[id][f]
      ]_vars

\* two updates of one task overlap: the first to write has been answered with
\* success and its status is stored; the second read the task before that
\* write and is about to write another status over it
LastWriteWinsWitness ==
    \E r \in Slots :
        /\ req[r].pc = "update"
        /\ last.op = "update"
        /\ last.status = 200
        /\ last.id = req[r].id
        /\ req[r].doc[1].status = "pending"
        /\ tasks[req[r].id].status = last.data[1].status
        /\ req[r].body["status"] # last.data[1].status

\* C23: a profile update changes at most the name, email and avatar of the
\* caller's own user record; every other field of it, and every field of
\* every other user's record, keeps its stored value, whatever the body names.
ProfileFrame ==
    [][ /\ DOMAIN users' = DOMAIN users
        /\ \A u \in DOMAIN users : \A f \in DOMAIN users[u] :
              users'[u][f] # users[u][f] =>
                  /\ last'.op = "setProfile"
                  /\ last'.status = 200
                  /\ u = last'.caller
                  /\ f \in {"name", "email", "avatar"}
      ]_vars

\* a body naming role, isActive and password next to a new name was applied:
\* the name is the new one, the other three are the stored ones
ProfileFrameWitness ==
    /\ last.op = "setProfile"
    /\ last.status = 200
    /\ users[last.caller].name = <<"n">>
    /\ users[last.caller].role = "user"
    /\ users[last.caller].isActive
    /\ users[last.caller].password = <<"p">>
    /\ last.data = <<users[last.caller]>>

\* no two user records hold the same email
UniqueEmail ==
    \A u, v \in DOMAIN users : u # v => users[u].email # users[v].email

\* the profile request answered by this step asked for an email that another
\* user holds at the time of the answer
AsksHeldEmail(b) ==
    /\ last'.op = "setProfile"
    /\ Has(Allowed(b), "email")
    /\ EmailIndexed(last'.caller, Allowed(b)["email"])

\* the profile request a step answers: its caller and body
Answers(c, b) ==
    \/ \E r \in Slots : /\ req[r].pc = "idle"
                         /\ ProfileFind(r, c, b)
                         /\ req'[r].pc = "idle"
    \/ \E r \in Slots : /\ req[r].pc = "profile"
                         /\ req[r].caller = c
                         /\ req[r].body = b
                         /\ ProfileWrite(r)

\* C24 as stated: emails stay unique, and in every interleaving a profile
\* update to an email another user holds is answered 'Email already exists'
\* and changes nothing.
EmailExistsAlways ==
    [][ /\ UniqueEmail'
        /\ \A c \in Users, b \in UserBodies :
              (Answers(c, b) /\ AsksHeldEmail(b)) =>
                  /\ last'.message = "Email already exists"
                  /\ users' = users
      ]_vars

\* C24: emails stay unique; a profile update to an email another user holds
\* is rejected and changes nothing: with 'Email already exists' when the
\* handler's lookup finds the holder, with the duplicate-key error of the
\* store when the holder took the email between the lookup and the write.
EmailConflict ==
    [][ /\ UniqueEmail'
        /\ \A c \in Users, b \in UserBodies :
              (Answers(c, b) /\ AsksHeldEmail(b)) =>
                  /\ last'.status = 400
                  /\ users' = users
                  /\ last'.message =
                        IF \E r \in Slots : req[r].pc = "profile" /\ ProfileWrite(r)
                        THEN "Duplicate field value entered"
                        ELSE "Email already exists"
      ]_vars

\* two users asked for the same free email at once: one holds it, the other
\* was refused by the store and keeps the email it had
EmailConflictWitness ==
    /\ last.op = "setProfile"
    /\ last.message = "Duplicate field value entered"
    /\ users[last.caller].email # <<"C", "@">>
    /\ \E u \in DOMAIN users \ {last.caller} : users[u].email = <<"C", "@">>

\* C25: the token the API client holds in memory and the 'auth_token' entry
\* of localStorage always agree; a successful login or signup sets both to the
\* token returned, and the completion of a logout, whatever the server
\* answered, and every 401 response leave both cleared.
TokenPersisted ==
    [][ /\ client.token = client.stored
        /\ client'.token = client'.stored
        /\ \A k \in client.calls :
              (LoginDone(k, "ok") \/ SignupDone(k, "ok")) =>
                  client'.token = NewToken(k.as) /\ client'.stored = NewToken(k.as)
        /\ \A k \in client.calls, o \in Outcomes :
              ( \/ LogoutDone(k, o)
                \/ CheckDone(k, "401") \/ RefreshDone(k, "401")
                \/ LoginDone(k, "401") \/ SignupDone(k, "401") ) =>
                  client'.token = NoToken /\ client'.stored = NoToken
      ]_vars

\* a login succeeded in a browser that had loaded the token of an earlier
\* session: memory and storage both hold the new token
TokenPersistedWitness ==
    /\ client.token = NewToken("A")
    /\ client.stored = NewToken("A")
    /\ client.user = <<"A">>
    /\ \E k \in client.calls : k.op = "check" /\ k.tok = OldToken

\* C26: the dashboard layout and ProtectedRoute show their children only when
\* the auth check is not loading and the session is authenticated; while
\* loading they show the spinner; when not loading and not authenticated
\* they show no protected content and the route is /login.
RenderGuard ==
    /\ client.view = "children" => ~client.loading /\ isAuthenticated(client)
    /\ (client.path = "/dashboard" /\ client.loading) => client.view = "spinner"
    /\ (~client.loading /\ ~isAuthenticated(client)) =>
           client.view = "none" /\ client.path = "/login"

\* C27: a session a login or signup established stays authenticated until a
\* logout or a failed request; the auth check sent at mount with an older
\* token, answered or failed after the login, leaves the token and the user
\* of that login as they are.
SessionKept ==
    [][ isAuthenticated(client) =>
          /\ \A k \in client.calls, o \in Outcomes :
                (CheckDone(k, o) /\ k.tok # client.token) =>
                    client'.token = client.token /\ client'.user = client.user
          /\ ~isAuthenticated(client') =>
                \/ Reload
                \/ \E k \in client.calls, o \in Outcomes : LogoutDone(k, o)
                \/ \E k \in client.calls, o \in {"401", "error"} :
                      \/ CheckDone(k, o) \/ RefreshDone(k, o)
                      \/ LoginDone(k, o) \/ SignupDone(k, o)
      ]_vars

\* C28: the list the tasks page builds from getTasks() holds every task the
\* logged-in user owns, archived or not.
GetTasksAll ==
    [][ LoadTasks =>
          \A i \in DOMAIN tasks : tasks[i].user = PageUser => i \in DOMAIN client'.list
      ]_vars

\* C29: when the delete and update actions of the tasks page have all ended
\* and all succeeded, the list on the screen holds no deleted task and shows
\* every task as the server stores it after its latest update.
PageCurrent ==
    (~client.loading /\ client.calls = {} /\ ~client.failed) =>
        \A i \in DOMAIN client.list :
            i \in DOMAIN tasks /\ client.list[i] = tasks[i]

====
